---------------------------- MODULE Spec2Model ----------------------------
(***************************************************************************)
(* Call forwarding over a shared Sync document (toledo-labs/               *)
(* hf-call-forwarding).  Three handler variants exist in the repository:   *)
(*   "basic"     src/call-fowarding.js                                     *)
(*   "optlock"   src/unnamed/part_001 lines 47-228  (etag / ifMatch)       *)
(*   "admission" src/unnamed/part_001 lines 287-550 (blacklist, TrueSpam)  *)
(* Every webhook activation constructs a CallForwarder and runs            *)
(* processCall; activations share nothing but the Sync document            *)
(* 'callForwardingState'.  The carrier (Twilio) delivers one signal per    *)
(* leg of a call and re-invokes the handler after each <Dial>.             *)
(***************************************************************************)
EXTENDS Integers, Sequences, FiniteSets, TLC

(* ------------------------------ bounds --------------------------------- *)
\* longest forwarding list asset
MaxN == 2
\* inbound calls
MaxCalls == 2
\* duplicate deliveries of a leg signal (at-least-once delivery)
MaxDup == 1
\* store operations that fail with a fault (a status other than 404/409/412)
MaxFaults == 1
\* handler invocations followed while the calls' activations interleave
MaxInvocations == 4

(* --------------------------- program constants -------------------------- *)
SPAM_THRESHOLD == 75

Variants == {"basic", "optlock", "admission"}

\* live activations: one per call plus the duplicates
MaxActs == MaxCalls + MaxDup
Acts == 1..MaxActs
Calls == 1..MaxCalls
\* legs a call may take: N dials and the voicemail leg
MaxLegs == MaxN + 1

(* --------------------------- phone numbers ------------------------------ *)
\* A phone number is a sequence of one-character strings.
Digits == {"0", "1", "2", "3", "4", "5", "6", "7", "8", "9"}

\* the test /^\+?[1-9]\d{1,14}$/
E164(number) ==
    LET body == IF Len(number) > 0 /\ number[1] = "+" THEN Tail(number) ELSE number
    IN  /\ Len(body) >= 2
        /\ Len(body) <= 15
        /\ body[1] \in Digits \ {"0"}
        /\ \A i \in 2..Len(body) : body[i] \in Digits

\* filter of a sequence, keeping order
RECURSIVE SelectValid(_)
SelectValid(entries) ==
    IF entries = << >> THEN << >>
    ELSE IF E164(Head(entries).number)
         THEN <<Head(entries)>> \o SelectValid(Tail(entries))
         ELSE SelectValid(Tail(entries))

RECURSIVE SelectValidNumbers(_)
SelectValidNumbers(numbers) ==
    IF numbers = << >> THEN << >>
    ELSE IF E164(Head(numbers))
         THEN <<Head(numbers)>> \o SelectValidNumbers(Tail(numbers))
         ELSE SelectValidNumbers(Tail(numbers))

(* ------------------------------ assets ---------------------------------- *)
\* An asset is "missing", "unparseable" or [ok |-> TRUE, list |-> <<...>>].
MissingAsset == [ok |-> FALSE, why |-> "missing"]
BadJsonAsset == [ok |-> FALSE, why |-> "unparseable"]

NumA == <<"+", "1", "1">>
NumB == <<"+", "1", "2">>
NumC == <<"+", "1", "3">>
NumD == <<"+", "1", "4">>
NumBad == <<"+", "0", "x">>
NumAnon == <<"a", "n", "o", "n">>

EntryPool ==
    << [number |-> NumA, name |-> "Alice"],
       [number |-> NumB, name |-> ""],
       [number |-> NumC, name |-> "Carol"],
       [number |-> NumD, name |-> ""] >>

\* the all-valid list of n entries
ValidList(n) == [i \in 1..n |-> EntryPool[i]]

PhoneAssets == { [ok |-> TRUE, list |-> ValidList(n)] : n \in 0..MaxN }

BlacklistAssets ==
    { MissingAsset, [ok |-> TRUE, list |-> <<NumC, NumAnon>>] }

\* caller identities (event.From)
AllCallers == {NumA, NumC, NumAnon}

(* ------------------------------ TwiML ----------------------------------- *)
\* A TwiML response is the sequence of verbs appended to this.twiml; every
\* verb carries a sequence of strings as its argument.
Say(text) == [verb |-> "Say", arg |-> text]
Hangup == [verb |-> "Hangup", arg |-> << >>]
Reject == [verb |-> "Reject", arg |-> <<"rejected">>]
Record == [verb |-> "Record", arg |-> <<"/voicemail-callback">>]
DialVerb(number) == [verb |-> "Dial", arg |-> number]

PositionLabels == <<"recipient 1", "recipient 2", "recipient 3", "recipient 4">>


SayConnected == Say(<<"Call connected successfully.">>)
SayUnavailable == Say(<<"the call forwarding service is unavailable">>)
SayError == Say(<<"An error occurred. Please try again later.">>)
SayTrying(name) == Say(<<"Trying to reach", name>>)

(* ------------------------------ state ----------------------------------- *)
VARIABLES
    variant,         \* which handler is deployed
    phoneAsset,      \* the asset /phone-numbers.json
    blacklistAsset,  \* the asset /blacklist.json
    doc,             \* the Sync document 'callForwardingState'
    acts,            \* the activations (one CallForwarder each)
    calls,           \* the carrier's view of each inbound call
    faults,          \* store faults the environment may still inject
    dups,            \* duplicate deliveries the carrier may still make
    budget,          \* handler invocations the environment may still make
    fin,             \* history: the activation that finished last
    writes           \* history: the cursor updates the store committed

vars ==
    <<variant, phoneAsset, blacklistAsset, doc, acts, calls, faults, dups,
      budget, fin, writes>>

config == <<variant, phoneAsset, blacklistAsset>>

(* ------------------------------ loaders --------------------------------- *)
EmptyWhitelist == [numbers |-> << >>, names |-> << >>]

\* loadWhitelistedNumbers that falls back on a built-in entry when the asset
\* cannot be read
loadWhitelistedNumbers_HardcodedFallback(v, asset) ==
    IF ~asset.ok THEN [numbers |-> <<NumA>>, names |-> <<"Alice">>]
    ELSE LET kept == IF v = "basic" THEN asset.list ELSE SelectValid(asset.list)
         IN  [numbers |-> [i \in 1..Len(kept) |-> kept[i].number],
              names   |-> [i \in 1..Len(kept) |-> kept[i].name]]

\* loadWhitelistedNumbers: the basic handler maps the entries as they are, the
\* other two keep the entries whose number passes the E.164 test.
loadWhitelistedNumbers(v, asset) ==
    IF ~asset.ok THEN EmptyWhitelist
    ELSE LET kept == IF v = "basic" THEN asset.list ELSE SelectValid(asset.list)
         IN  [numbers |-> [i \in 1..Len(kept) |-> kept[i].number],
              names   |-> [i \in 1..Len(kept) |-> kept[i].name]]

loadBlacklistedNumbers(asset) ==
    IF ~asset.ok THEN << >> ELSE SelectValidNumbers(asset.list)

whitelistedNumbers == loadWhitelistedNumbers(variant, phoneAsset)
blacklistedNumbers == loadBlacklistedNumbers(blacklistAsset)
listLength == Len(whitelistedNumbers.numbers)

Includes(seq, x) == \E i \in 1..Len(seq) : seq[i] = x

(* --------------------------- the call signal ---------------------------- *)
\* DialCallStatus: "" on the initial leg (the parameter is absent).
NoStatus == ""
AllStatuses ==
    {NoStatus, "in-progress", "no-answer", "busy", "failed", "completed", "answered"}
\* the outcomes of a <Dial> the carrier-driven specifications follow
DialOutcomes == {"no-answer", "completed"}

NoAddOns ==
    [present |-> FALSE, status |-> "", tsStatus |-> "", hasResult |-> FALSE,
     match |-> 0, score |-> 0]
SpamAddOns(score) ==
    [present |-> TRUE, status |-> "successful", tsStatus |-> "successful",
     hasResult |-> TRUE, match |-> 1, score |-> score]


\* the AddOns payloads tried on a single activation
AllAnnotations ==
    { NoAddOns,
      [SpamAddOns(100) EXCEPT !.status = "failed"],
      [SpamAddOns(100) EXCEPT !.tsStatus = "failed"],
      [SpamAddOns(100) EXCEPT !.hasResult = FALSE],
      [SpamAddOns(100) EXCEPT !.match = 0],
      SpamAddOns(SPAM_THRESHOLD - 1),
      SpamAddOns(SPAM_THRESHOLD),
      SpamAddOns(100) }

isInitialCall(status) == status = NoStatus
\* isCallComplete that knows 'completed' only
isCallComplete_CompletedOnly(status) == status = "completed"

isCallComplete(status) == status \in {"completed", "answered"}

(* --------------------------- admission gate ----------------------------- *)
BlacklistHit(from) == Includes(blacklistedNumbers, from)

\* SpamHit that rejects scores above the threshold only (> for >=)
SpamHit_StrictlyAbove(addOns) ==
    /\ addOns.present
    /\ addOns.status = "successful"
    /\ addOns.tsStatus = "successful"
    /\ addOns.hasResult
    /\ addOns.match = 1
    /\ addOns.score > SPAM_THRESHOLD

SpamHit(addOns) ==
    /\ addOns.present
    /\ addOns.status = "successful"
    /\ addOns.tsStatus = "successful"
    /\ addOns.hasResult
    /\ addOns.match = 1
    /\ addOns.score >= SPAM_THRESHOLD

\* the part of processCall that precedes the try block (admission handler only)
GateRejects(v, from, addOns) ==
    v = "admission" /\ (BlacklistHit(from) \/ SpamHit(addOns))

(* --------------------------- routing decision --------------------------- *)
\* Route with the exhaustion test on the initial leg instead of the forwarded
Route_Inverted(status, currentIndex) ==
    IF isCallComplete(status) THEN "Connected"
    ELSE IF listLength = 0 THEN "Unavailable"
    ELSE IF isInitialCall(status) /\ currentIndex >= listLength THEN "Voicemail"
    ELSE "Dial"

\* Route with the exhaustion test off by one (> for >=)
Route_OffByOne(status, currentIndex) ==
    IF isCallComplete(status) THEN "Connected"
    ELSE IF listLength = 0 THEN "Unavailable"
    ELSE IF ~isInitialCall(status) /\ currentIndex > listLength THEN "Voicemail"
    ELSE "Dial"

\* Route with the exhaustion test made before the test of the empty list
Route_ExhaustionFirst(status, currentIndex) ==
    IF isCallComplete(status) THEN "Connected"
    ELSE IF ~isInitialCall(status) /\ currentIndex >= listLength THEN "Voicemail"
    ELSE IF listLength = 0 THEN "Unavailable"
    ELSE "Dial"

\* steps 2-4 of processCall, the same in the three handlers
Route(status, currentIndex) ==
    IF isCallComplete(status) THEN "Connected"
    ELSE IF listLength = 0 THEN "Unavailable"
    ELSE IF ~isInitialCall(status) /\ currentIndex >= listLength THEN "Voicemail"
    ELSE "Dial"

\* the basic handler's reset of a stale cursor on the initial leg
ResetIndex(status, currentIndex) ==
    IF isInitialCall(status) /\ currentIndex >= listLength THEN 0 ELSE currentIndex

\* SafeIdx that selects the entry after the one the cursor names
SafeIdx_OffByOne(v, status, currentIndex) ==
    IF v = "basic" THEN (ResetIndex(status, currentIndex) + 1) % listLength
    ELSE (currentIndex + 1) % listLength

\* the index whose entry is dialed
SafeIdx(v, status, currentIndex) ==
    IF v = "basic" THEN ResetIndex(status, currentIndex) % listLength
    ELSE currentIndex % listLength

\* the value handed to updateCurrentIndex
NextIdx(v, status, currentIndex) ==
    CASE v = "basic"     -> ResetIndex(status, currentIndex) + 1
      [] v = "optlock"   -> currentIndex + 1
      [] v = "admission" -> (currentIndex % listLength) + 1

\* dialNumber(idx): idx counts from 0
dialNumber(idx) ==
    LET stored == whitelistedNumbers.names[idx + 1]
        name == IF stored # "" THEN stored ELSE PositionLabels[idx + 1]
    IN  << SayTrying(name), DialVerb(whitelistedNumbers.numbers[idx + 1]) >>

recordVoicemail ==
    << Say(<<"Please leave a message">>), Record, Say(<<"Goodbye">>), Hangup >>

(* ------------------------------ records --------------------------------- *)
NoDoc == [exists |-> FALSE, currentIndex |-> 0, etag |-> 0]

FreeAct ==
    [pc |-> "free", call |-> 0, leg |-> 0, status |-> NoStatus, from |-> << >>,
     addOns |-> NoAddOns, currentIndex |-> -1, etag |-> -1, twiml |-> << >>,
     callbacks |-> << >>, dialed |-> -1, storeOps |-> 0, updates |-> 0,
     committed |-> FALSE]

NewCall ==
    [leg |-> 0, status |-> NoStatus, from |-> << >>, addOns |-> NoAddOns,
     decided |-> FALSE, decisions |-> << >>]

\* new CallForwarder({context, event, callback})
Construct(c, leg, status, from, addOns) ==
    [FreeAct EXCEPT !.pc = "start", !.call = c, !.leg = leg, !.status = status,
                    !.from = from, !.addOns = addOns]

(* --------------------------- responses ---------------------------------- *)
\* this.callback(err) / this.callback(null, this.twiml)
Callback(rec, err) ==
    [rec EXCEPT !.callbacks =
        Append(@, [err |-> err,
                   twiml |-> IF err THEN << >> ELSE rec.twiml,
                   dialed |-> rec.dialed])]

Finish(rec, twiml) ==
    [Callback([rec EXCEPT !.twiml = twiml], FALSE) EXCEPT !.pc = "done"]

\* the catch block of processCall
Fail(rec) ==
    IF variant = "basic"
    THEN [Callback(rec, TRUE) EXCEPT !.pc = "done"]
    ELSE Finish(rec, rec.twiml \o <<SayError, Hangup>>)

\* what the carrier reads in a response
Outcome(resp) ==
    IF resp.err THEN "Error"
    ELSE IF resp.twiml = <<Reject>> THEN "Reject"
    ELSE IF resp.twiml = <<SayConnected>> THEN "Connected"
    ELSE IF resp.twiml = <<SayUnavailable, Hangup>> THEN "Unavailable"
    ELSE IF resp.twiml = recordVoicemail THEN "Voicemail"
    ELSE IF resp.twiml = <<SayError, Hangup>> THEN "Apology"
    ELSE IF Len(resp.twiml) = 2 /\ resp.twiml[2].verb = "Dial" THEN "Dial"
    ELSE "Other"

\* a leg as the carrier saw it: the signal it sent and the answer it got
Decision(rec) ==
    LET resp == rec.callbacks[1]
    IN  [kind |-> Outcome(resp),
         idx |-> IF Outcome(resp) = "Dial" THEN resp.dialed ELSE -1,
         status |-> rec.status,
         addOns |-> rec.addOns]

\* The carrier acts on the first response it gets for the leg it waits on; an
\* activation's HTTP response is its first callback.
Deliver(cs, old, new) ==
    IF /\ Len(old.callbacks) = 0
       /\ Len(new.callbacks) > 0
       /\ cs[new.call].leg = new.leg
       /\ ~cs[new.call].decided
    THEN [cs EXCEPT ![new.call].decided = TRUE,
                    ![new.call].decisions = Append(@, Decision(new))]
    ELSE cs

(* --------------------------- processCall -------------------------------- *)
\* processCall from the cursor read to its next store operation
AfterRead(rec, currentIndex, etag) ==
    LET r == [rec EXCEPT !.currentIndex = currentIndex, !.etag = etag]
        idx == SafeIdx(variant, rec.status, currentIndex)
    IN  CASE Route(rec.status, currentIndex) = "Connected" ->
               Finish(r, <<SayConnected>>)
          [] Route(rec.status, currentIndex) = "Unavailable" ->
               Finish(r, <<SayUnavailable, Hangup>>)
          [] Route(rec.status, currentIndex) = "Voicemail" ->
               Finish(r, recordVoicemail)
          [] Route(rec.status, currentIndex) = "Dial" ->
               CASE variant = "basic" ->
                      [r EXCEPT !.twiml = dialNumber(idx), !.dialed = idx,
                                !.pc = "update"]
                 [] variant = "optlock" ->
                      [Callback([r EXCEPT !.twiml = dialNumber(idx),
                                          !.dialed = idx], FALSE)
                          EXCEPT !.pc = "update"]
                 [] variant = "admission" ->
                      [r EXCEPT !.pc = "update"]

\* ProcessCall with the cursor fetched before the gate is evaluated
ProcessCall_FetchBeforeGate(rec, outcome) ==
    LET r == [rec EXCEPT !.storeOps = @ + 1]
    IN  IF outcome = "fault" THEN Fail(r)
        ELSE IF GateRejects(variant, rec.from, rec.addOns)
        THEN Finish(r, <<Reject>>)
        ELSE CASE outcome = "ok"  -> AfterRead(r, doc.currentIndex, doc.etag)
               [] outcome = "404" -> [r EXCEPT !.pc = "create"]

\* ProcessCall with the gate evaluated on the initial leg only
ProcessCall_GateOnInitialLeg(rec, outcome) ==
    IF isInitialCall(rec.status) /\ GateRejects(variant, rec.from, rec.addOns)
    THEN Finish(rec, <<Reject>>)
    ELSE LET r == [rec EXCEPT !.storeOps = @ + 1]
         IN  CASE outcome = "ok"    -> AfterRead(r, doc.currentIndex, doc.etag)
               [] outcome = "404"   -> [r EXCEPT !.pc = "create"]
               [] outcome = "fault" -> Fail(r)

\* processCall up to the answer of its fetch: the gate, then getCurrentIndex
ProcessCall(rec, outcome) ==
    IF GateRejects(variant, rec.from, rec.addOns)
    THEN Finish(rec, <<Reject>>)
    ELSE LET r == [rec EXCEPT !.storeOps = @ + 1]
         IN  CASE outcome = "ok"    -> AfterRead(r, doc.currentIndex, doc.etag)
               [] outcome = "404"   -> [r EXCEPT !.pc = "create"]
               [] outcome = "fault" -> Fail(r)

FetchOutcome == IF doc.exists THEN "ok" ELSE "404"

FreeSlots == {a \in Acts : acts[a].pc = "free"}
Slot == CHOOSE a \in FreeSlots : \A b \in FreeSlots : a <= b

\* An activation that has finished leaves its slot; its record is kept in fin.
Settle(a, new) ==
    /\ acts' = [acts EXCEPT ![a] = IF new.pc = "done" THEN FreeAct ELSE new]
    /\ fin' = IF new.pc = "done" THEN new ELSE fin

\* the handler is invoked with a leg's signal
Invoke(c, cs, outcome) ==
    LET rec == Construct(c, cs[c].leg, cs[c].status, cs[c].from, cs[c].addOns)
        new == ProcessCall(rec, outcome)
    IN  /\ FreeSlots # {}
        /\ budget > 0
        /\ budget' = budget - 1
        /\ Settle(Slot, new)
        /\ calls' = Deliver(cs, rec, new)

\* calls arrive in the order of their numbers
CanStartLeg(c) ==
    \/ calls[c].leg = 0 /\ \A b \in Calls : b < c => calls[b].leg > 0
    \/ /\ calls[c].decided
       /\ calls[c].decisions[Len(calls[c].decisions)].kind = "Dial"
       /\ calls[c].leg < MaxLegs

\* the signal of the next leg of call c: the inbound call itself, or the
\* action callback of the <Dial> that ended with some DialCallStatus
NextSignal(c, from, status, addOns) ==
    [calls EXCEPT ![c] = [@ EXCEPT !.leg = @ + 1, !.status = status,
                                   !.from = from, !.addOns = addOns,
                                   !.decided = FALSE]]

SignalChoices(c, callers) ==
    IF calls[c].leg = 0
    THEN {<<from, NoStatus>> : from \in callers}
    ELSE {<<calls[c].from, status>> : status \in DialOutcomes}

(* ------------------------------ actions --------------------------------- *)
\* The carrier signals the next leg of call c; callers and annots are the
\* caller identities and AddOns payloads the signal may carry.
StartLeg(c, callers, annots) ==
    /\ CanStartLeg(c)
    /\ \E sig \in SignalChoices(c, callers), addOns \in annots :
           Invoke(c, NextSignal(c, sig[1], sig[2], addOns), FetchOutcome)
    /\ UNCHANGED <<config, doc, writes, faults, dups>>

\* at-least-once delivery: the signal of the current leg arrives again
Redeliver(c) ==
    /\ calls[c].leg > 0
    /\ dups > 0
    /\ Invoke(c, calls, FetchOutcome)
    /\ dups' = dups - 1
    /\ UNCHANGED <<config, doc, writes, faults>>

(* ------------------------------ the store -------------------------------- *)
\* documents.create({uniqueName, data: {currentIndex: 0}}): 409 when the name
\* is taken
StoreCreate(d) ==
    IF d.exists
    THEN [doc |-> d, status |-> 409]
    ELSE [doc |-> [exists |-> TRUE, currentIndex |-> 0, etag |-> d.etag + 1],
          status |-> 201]

\* documents(name).update({data}, {ifMatch}): 412 when the revision moved;
\* ifMatch = -1 stands for an update without the option
StoreUpdate(d, newIndex, ifMatch) ==
    IF ifMatch # -1 /\ ifMatch # d.etag
    THEN [doc |-> d, status |-> 412]
    ELSE [doc |-> [d EXCEPT !.currentIndex = newIndex, !.etag = @ + 1],
          status |-> 200]

\* updateCurrentIndex without the ifMatch option in any handler
updateCurrentIndex_NoIfMatch(v, d, newIndex, etag) ==
    StoreUpdate(d, newIndex, -1)

\* updateCurrentIndex: only the optimistic-lock handler passes the etag
updateCurrentIndex(v, d, newIndex, etag) ==
    StoreUpdate(d, newIndex, IF v = "optlock" THEN etag ELSE -1)

\* the create that follows a 404 in getSyncDocument / getCurrentIndex(AndEtag)
Create(a) ==
    LET rec == acts[a]
        r == [rec EXCEPT !.storeOps = @ + 1]
        res == StoreCreate(doc)
        new == IF res.status = 201
               THEN AfterRead(r, res.doc.currentIndex, res.doc.etag)
               ELSE Fail(r)
    IN  /\ rec.pc = "create"
        /\ doc' = res.doc
        /\ Settle(a, new)
        /\ calls' = Deliver(calls, rec, new)
        /\ UNCHANGED <<config, writes, faults, dups, budget>>

CreateFault(a) ==
    LET rec == acts[a]
        new == Fail([rec EXCEPT !.storeOps = @ + 1])
    IN  /\ rec.pc = "create"
        /\ faults > 0
        /\ faults' = faults - 1
        /\ Settle(a, new)
        /\ calls' = Deliver(calls, rec, new)
        /\ UNCHANGED <<config, doc, writes, dups, budget>>

\* AfterUpdate with a 412 handled as any other failure of the update
AfterUpdate_ConflictThrows(r, status) ==
    LET idx == SafeIdx(variant, r.status, r.currentIndex)
        w == [r EXCEPT !.committed = (status = 200)]
    IN  IF status = 412 THEN Fail(w)
        ELSE CASE variant = "basic" ->
                    [Callback(w, FALSE) EXCEPT !.pc = "done"]
               [] variant = "optlock" ->
                    [w EXCEPT !.pc = "done"]
               [] variant = "admission" ->
                    Finish([w EXCEPT !.dialed = idx], dialNumber(idx))

\* processCall after the answer of its cursor update
AfterUpdate(r, status) ==
    LET idx == SafeIdx(variant, r.status, r.currentIndex)
        w == [r EXCEPT !.committed = (status = 200)]
    IN  CASE variant = "basic" ->
               [Callback(w, FALSE) EXCEPT !.pc = "done"]
          [] variant = "optlock" ->
               [w EXCEPT !.pc = "done"]
          [] variant = "admission" ->
               Finish([w EXCEPT !.dialed = idx], dialNumber(idx))

\* the cursor update of a Dial activation
Update(a) ==
    LET rec == acts[a]
        r == [rec EXCEPT !.storeOps = @ + 1, !.updates = @ + 1]
        res == updateCurrentIndex(variant, doc,
                   NextIdx(variant, rec.status, rec.currentIndex), rec.etag)
        new == AfterUpdate(r, res.status)
    IN  /\ rec.pc = "update"
        /\ doc' = res.doc
        /\ Settle(a, new)
        /\ calls' = Deliver(calls, rec, new)
        /\ writes' = IF res.status = 200
                     THEN Append(writes,
                                 [call |-> rec.call, leg |-> rec.leg,
                                  etag |-> rec.etag, read |-> rec.currentIndex,
                                  prev |-> doc.currentIndex,
                                  value |-> res.doc.currentIndex])
                     ELSE writes
        /\ UNCHANGED <<config, faults, dups, budget>>

\* the cursor update fails with a status other than 412
UpdateFault(a) ==
    LET rec == acts[a]
        new == Fail([rec EXCEPT !.storeOps = @ + 1, !.updates = @ + 1])
    IN  /\ rec.pc = "update"
        /\ faults > 0
        /\ faults' = faults - 1
        /\ Settle(a, new)
        /\ calls' = Deliver(calls, rec, new)
        /\ UNCHANGED <<config, doc, writes, dups, budget>>

(* --------------------------- specification ------------------------------ *)
\* the assets a deployment of each handler reads
Configs ==
    /\ variant \in Variants
    /\ phoneAsset \in PhoneAssets
    /\ blacklistAsset \in IF variant = "admission" THEN BlacklistAssets
                          ELSE {MissingAsset}

\* one caller that no block list names, and no AddOns payload
PlainCallers == {NumA}
PlainAnnotations == {NoAddOns}

\* Calls driven by the carrier, their activations interleaved on the store;
\* every store operation gets an answer of the Sync service.
Init ==
    /\ Configs
    /\ blacklistAsset = MissingAsset
    /\ doc = NoDoc
    /\ acts = [a \in Acts |-> FreeAct]
    /\ calls = [c \in Calls |-> NewCall]
    /\ faults = 0
    /\ dups = MaxDup
    /\ budget = MaxInvocations
    /\ fin = FreeAct
    /\ writes = << >>

Next ==
    \/ \E c \in Calls : StartLeg(c, PlainCallers, PlainAnnotations)
    \/ \E c \in Calls : Redeliver(c)
    \/ \E a \in Acts : Create(a)
    \/ \E a \in Acts : Update(a)

Spec == Init /\ [][Next]_vars


(* ---------------- one call after another, one leg at a time ------------- *)
GateCallers == {NumA, NumC}
GateAnnotations == {NoAddOns, SpamAddOns(SPAM_THRESHOLD)}

Quiet == \A a \in Acts : acts[a].pc = "free"

Ended(c) ==
    /\ calls[c].decided
    /\ \/ calls[c].decisions[Len(calls[c].decisions)].kind # "Dial"
       \/ calls[c].leg = MaxLegs

\* the next leg starts when the activation before it has finished, and a call
\* starts when the call before it has ended
SeqStartLeg(c) ==
    /\ Quiet
    /\ \A b \in Calls : b < c => Ended(b)
    /\ StartLeg(c, GateCallers, GateAnnotations)

InitSeq ==
    /\ Configs
    /\ doc = NoDoc
    /\ acts = [a \in Acts |-> FreeAct]
    /\ calls = [c \in Calls |-> NewCall]
    /\ faults = 0
    /\ dups = 0
    /\ budget = MaxCalls * MaxLegs
    /\ fin = FreeAct
    /\ writes = << >>

NextSeq ==
    \/ \E c \in Calls : SeqStartLeg(c)
    \/ \E a \in Acts : Create(a)
    \/ \E a \in Acts : Update(a)

SpecSeq == InitSeq /\ [][NextSeq]_vars

(* ------------- one activation, any signal, any stored cursor ------------ *)
\* The document outlives calls and deployments: an activation may find it
\* absent or holding any cursor.
MaxCursor == MaxN + 1
DocStates ==
    {NoDoc} \cup
    { [exists |-> TRUE, currentIndex |-> k, etag |-> 1] : k \in 0..MaxCursor }

\* the webhook is invoked with an arbitrary signal
AnySignal(from, status, addOns) ==
    [calls EXCEPT ![1] = [@ EXCEPT !.leg = 1, !.status = status, !.from = from,
                                   !.addOns = addOns]]

AnyLeg ==
    /\ calls[1].leg = 0
    /\ \E from \in AllCallers, status \in AllStatuses, addOns \in AllAnnotations :
           Invoke(1, AnySignal(from, status, addOns), FetchOutcome)
    /\ UNCHANGED <<config, doc, writes, faults, dups>>

\* the fetch of getCurrentIndex fails with a status other than 404
AnyLegFault ==
    /\ calls[1].leg = 0
    /\ faults > 0
    /\ \E from \in AllCallers, status \in AllStatuses, addOns \in AllAnnotations :
           /\ ~GateRejects(variant, from, addOns)
           /\ Invoke(1, AnySignal(from, status, addOns), "fault")
    /\ faults' = faults - 1
    /\ UNCHANGED <<config, doc, writes, dups>>

InitLeg ==
    /\ Configs
    /\ doc \in DocStates
    /\ acts = [a \in Acts |-> FreeAct]
    /\ calls = [c \in Calls |-> NewCall]
    /\ faults = MaxFaults
    /\ dups = 0
    /\ budget = 1
    /\ fin = FreeAct
    /\ writes = << >>

NextLeg ==
    \/ AnyLeg
    \/ AnyLegFault
    \/ \E a \in Acts : Create(a)
    \/ \E a \in Acts : CreateFault(a)
    \/ \E a \in Acts : Update(a)
    \/ \E a \in Acts : UpdateFault(a)

SpecLeg == InitLeg /\ [][NextLeg]_vars


(* ------------------------------ claims ---------------------------------- *)
LastDecision(c) == calls[c].decisions[Len(calls[c].decisions)]

\* legs 1..k of call c went unanswered and carried nothing the gate rejects
Unanswered(c, k) ==
    \A j \in 1..k :
        /\ ~isCallComplete(calls[c].decisions[j].status)
        /\ ~GateRejects(variant, calls[c].from, calls[c].decisions[j].addOns)

\* what leg k of a call that runs alone gets: entry k-1, then voicemail
AloneDecision(c, k) ==
    IF k <= listLength
    THEN calls[c].decisions[k].kind = "Dial" /\ calls[c].decisions[k].idx = k - 1
    ELSE calls[c].decisions[k].kind = "Voicemail"

\* C1: with N >= 1 entries, a fresh cursor and the legs of one call run one
\* after another, the unanswered legs dial entries 0, 1, ..., N-1 in order,
\* once each, the stored cursor is k after the k-th dial (N after the last),
\* and leg N+1 gets Voicemail with the cursor still N.
C1_SequentialDialOrder ==
    listLength >= 1 =>
        /\ \A k \in 1..Len(calls[1].decisions) :
               Unanswered(1, k) => AloneDecision(1, k)
        /\ \A k \in 1..Len(calls[1].decisions) :
               ( /\ k = Len(calls[1].decisions)
                 /\ Unanswered(1, k)
                 /\ Quiet
                 /\ calls[1].decided
                 /\ \A c \in Calls : c > 1 => calls[c].leg = 0 )
               => doc.currentIndex = (IF k <= listLength THEN k ELSE listLength)

C1_Witness ==
    /\ listLength = MaxN
    /\ Len(calls[1].decisions) = MaxN + 1
    /\ Unanswered(1, MaxN + 1)
    /\ \A k \in 1..MaxN : calls[1].decisions[k].idx = k - 1
    /\ LastDecision(1).kind = "Voicemail"
    /\ doc.currentIndex = MaxN


(* claims about one activation: fin is the activation that has finished *)
Finished == fin.pc = "done"
FirstOutcome == Outcome(fin.callbacks[1])
AnsweredLeg == fin.status \in {"completed", "answered"}
ForwardedLeg == fin.status \in {"in-progress", "no-answer", "busy", "failed"}
InitialLeg == fin.status = NoStatus
\* the get-or-create of the cursor gave a value
CursorRead == fin.currentIndex >= 0
OnBlockList == \E i \in 1..Len(blacklistedNumbers) : blacklistedNumbers[i] = fin.from
\* the AddOns payload is one the spam gate rejects: successful, a database
\* match and a score of at least 75
SpamAnnotated ==
    /\ fin.addOns.present
    /\ fin.addOns.status = "successful"
    /\ fin.addOns.tsStatus = "successful"
    /\ fin.addOns.hasResult
    /\ fin.addOns.match = 1
    /\ fin.addOns.score >= 75
Admitted == variant = "admission" => ~OnBlockList /\ ~SpamAnnotated

\* C2 as claimed: every activation whose legStatus is completed or answered
\* answers Connected and makes no cursor write, whatever the cursor, the list
\* and the caller.
C2_AnsweredAlwaysConnected ==
    (Finished /\ AnsweredLeg) =>
        /\ Len(fin.callbacks) >= 1
        /\ FirstOutcome = "Connected"
        /\ fin.updates = 0

\* C2 as amended: an activation whose legStatus is completed or answered,
\* that the admission gate lets through and whose cursor get-or-create
\* succeeds, answers Connected and issues no cursor update.
C2_AnsweredConnectedWhenAdmitted ==
    (Finished /\ AnsweredLeg /\ Admitted /\ CursorRead) =>
        /\ fin.callbacks = << [err |-> FALSE, twiml |-> <<SayConnected>>,
                              dialed |-> -1] >>
        /\ fin.updates = 0
        /\ writes = << >>

C2_Witness ==
    /\ Finished
    /\ variant = "admission"
    /\ fin.status = "answered"
    /\ Admitted
    /\ listLength >= 1
    /\ fin.currentIndex = listLength
    /\ FirstOutcome = "Connected"
    /\ fin.updates = 0


\* C3: a forwarded leg (legStatus present, not completed/answered) that reads
\* a cursor >= listLength, the list not empty, answers Voicemail, dials
\* nothing and issues no cursor update.
C3_ExhaustedForwardedLegVoicemail ==
    (Finished /\ ForwardedLeg /\ CursorRead /\ listLength >= 1
        /\ fin.currentIndex >= listLength) =>
        /\ fin.callbacks = << [err |-> FALSE, twiml |-> recordVoicemail,
                              dialed |-> -1] >>
        /\ \A i \in 1..Len(fin.twiml) : fin.twiml[i].verb # "Dial"
        /\ fin.updates = 0
        /\ writes = << >>

C3_Witness ==
    /\ Finished
    /\ fin.status = "busy"
    /\ listLength >= 1
    /\ fin.currentIndex > listLength
    /\ FirstOutcome = "Voicemail"
    /\ doc.currentIndex = fin.currentIndex

\* C4 as claimed: in each handler an initial leg that reads cursor ==
\* listLength (N >= 1) dials the entry at index 0 and persists cursor 1.
C4_StaleCursorResets ==
    (Finished /\ InitialLeg /\ Admitted /\ CursorRead /\ listLength >= 1
        /\ fin.currentIndex = listLength /\ fin.committed) =>
        /\ FirstOutcome = "Dial"
        /\ fin.callbacks[1].dialed = 0
        /\ doc.currentIndex = 1

\* C5: in the admission handler an activation whose caller is on the Block
\* List answers Reject, whatever its legStatus and the cursor, without any
\* store operation: the document is as it was.
C5_BlacklistRejects ==
    [][ ( /\ variant = "admission"
          /\ fin' # fin
          /\ \E i \in 1..Len(blacklistedNumbers) : blacklistedNumbers[i] = fin'.from )
        => /\ fin'.callbacks = << [err |-> FALSE, twiml |-> <<Reject>>,
                                  dialed |-> -1] >>
           /\ fin'.storeOps = 0
           /\ doc' = doc
           /\ writes' = writes ]_vars

C5_Witness ==
    /\ Finished
    /\ variant = "admission"
    /\ OnBlockList
    /\ fin.status = "completed"
    /\ FirstOutcome = "Reject"
    /\ doc.exists
    /\ doc.currentIndex = 1

\* C6 as claimed: in the admission handler a non-initial leg of a call whose
\* initial leg was admitted is never answered Reject because of its spam
\* annotation.
C6_SpamGateInitialLegOnly ==
    \A c \in Calls : \A k \in 2..Len(calls[c].decisions) :
        ( /\ variant = "admission"
          /\ calls[c].decisions[1].kind = "Dial"
          /\ ~(\E i \in 1..Len(blacklistedNumbers) :
                   blacklistedNumbers[i] = calls[c].from)
          /\ calls[c].decisions[k].status # NoStatus )
        => calls[c].decisions[k].kind # "Reject"

\* C7 as claimed: every activation invokes its response callback exactly once.
C7_ExactlyOneResponse ==
    Finished => Len(fin.callbacks) = 1

(* claims about activations interleaved on the store: writes is the log of
   the cursor updates the store committed *)
\* the activation in fin sent its conditional update and the store refused it
LostUpdate == Finished /\ fin.updates = 1 /\ ~fin.committed

\* C8: in the optimistic-lock handler, of the activations that read the same
\* cursor value c and the same version token, exactly one commits its
\* conditional update: no two committed updates carry the same token, a
\* refused update lost to a committed one with its token, every committed
\* update takes the cursor from the value c it read to c + 1, and the stored
\* cursor changes by committed updates only.
C8_ConditionalWriteSingleAdvance ==
    variant = "optlock" =>
        /\ \A i, j \in 1..Len(writes) :
               writes[i].etag = writes[j].etag => i = j
        /\ LostUpdate =>
               \E i \in 1..Len(writes) :
                   /\ writes[i].etag = fin.etag
                   /\ writes[i].read = fin.currentIndex
                   /\ writes[i].value = fin.currentIndex + 1
        /\ \A i \in 1..Len(writes) :
               /\ writes[i].prev = writes[i].read
               /\ writes[i].value = writes[i].read + 1
        /\ \A i \in 2..Len(writes) : writes[i].prev = writes[i - 1].value
        /\ Len(writes) > 0 => doc.currentIndex = writes[Len(writes)].value

C8_Witness ==
    /\ variant = "optlock"
    /\ LostUpdate
    /\ fin.currentIndex < listLength
    /\ Len(writes) = 1
    /\ writes[1].etag = fin.etag
    /\ writes[1].leg = fin.leg
    /\ writes[1].call = fin.call
    /\ doc.currentIndex = fin.currentIndex + 1

\* C9 as claimed: when the signal of a leg is delivered twice, the cursor is
\* advanced at most once for that leg and the call skips no entry, in every
\* interleaving of the two activations (one call on the store).
C9_DuplicateAdvancesOnce ==
    (calls[2].leg = 0 /\ listLength >= 1) =>
        /\ \A i, j \in 1..Len(writes) :
               (writes[i].call = writes[j].call /\ writes[i].leg = writes[j].leg)
                   => i = j
        /\ \A k \in 1..Len(calls[1].decisions) :
               Unanswered(1, k) => AloneDecision(1, k)

\* no decision of call c ended the call yet
Live(c) ==
    /\ calls[c].leg > 0
    /\ \A k \in 1..Len(calls[c].decisions) : calls[c].decisions[k].kind = "Dial"

\* C10 as claimed: two calls that overlap in time, each signal delivered
\* once, each get the decisions of a call that runs alone: Dial of entries
\* 0, 1, ..., N-1 in order while unanswered, then Voicemail.
C10_OverlappingCallsIndependent ==
    (dups = MaxDup /\ listLength >= 1 /\ \A c \in Calls : Live(c)) =>
        \A c \in Calls : \A k \in 1..Len(calls[c].decisions) :
            Unanswered(c, k) => AloneDecision(c, k)

(* claims about calls that follow one another: under SpecSeq a call starts
   when the call before it has ended *)
\* C11 as claimed: with no other call in progress, the initial leg of a new
\* inbound call that the gate admits, the list not empty, is answered Dial of
\* the entry at index 0, whatever the earlier calls' outcomes.
C11_NewCallDialsFirstEntry ==
    \A c \in Calls :
        ( /\ listLength >= 1
          /\ Len(calls[c].decisions) >= 1
          /\ calls[c].decisions[1].status = NoStatus
          /\ Unanswered(c, 1) )
        => /\ calls[c].decisions[1].kind = "Dial"
           /\ calls[c].decisions[1].idx = 0


(* claims about calls whose activations interleave on the store *)
\* entry i of the list was dialed in a leg of call c before leg k
TriedBefore(c, k, i) ==
    \E j \in 1..(k - 1) :
        /\ calls[c].decisions[j].kind = "Dial"
        /\ calls[c].decisions[j].idx = i

\* C12 as claimed: when a call is answered Voicemail, every entry of the
\* forwarding list was dialed in an earlier leg of that call (each signal
\* delivered once, the calls' activations interleaved in any way).
C12_VoicemailOnlyAfterAllTried ==
    dups = MaxDup =>
        \A c \in Calls : \A k \in 1..Len(calls[c].decisions) :
            calls[c].decisions[k].kind = "Voicemail" =>
                \A i \in 0..(listLength - 1) : TriedBefore(c, k, i)


\* call c has committed a cursor update and no terminal decision yet
InSequence(c) ==
    /\ \E i \in 1..Len(writes) : writes[i].call = c
    /\ \A k \in 1..Len(calls[c].decisions) : calls[c].decisions[k].kind = "Dial"

\* C13 as claimed: between a call's first cursor update and its terminal
\* decision no step of any activation lowers the stored cursor.
C13_CursorNeverLowered ==
    [][ (\E c \in Calls : InSequence(c))
            => doc'.currentIndex >= doc.currentIndex ]_vars


\* C14 as claimed: every store operation being answered by the service, a
\* first-leg activation whose create finds the document already there still
\* obtains the cursor and reaches a routing decision: no activation ends in
\* the apology or an error response.
C14_CreationRaceTolerated ==
    (Finished /\ InitialLeg /\ faults = 0) =>
        /\ CursorRead
        /\ \A i \in 1..Len(fin.callbacks) :
               Outcome(fin.callbacks[i]) \notin {"Apology", "Error"}


\* C15: in the optimistic-lock handler an update refused with 412 is not an
\* error: the step that receives the 412 leaves the document as the
\* concurrent leg wrote it (its revision is no longer the one the activation
\* read), and the activation's only response is the Dial it had built: one
\* callback, without error, holding the Say and Dial of the selected entry.
C15_ConflictIsSwallowed ==
    [][ ( /\ variant = "optlock"
          /\ \E a \in Acts :
                 /\ acts[a].pc = "update"
                 /\ acts'[a].pc = "free"
                 /\ acts[a].etag # doc.etag )
        => /\ doc' = doc
           /\ writes' = writes
           /\ ~fin'.committed
           /\ fin'.callbacks =
                  << [err |-> FALSE,
                      twiml |-> dialNumber(fin'.currentIndex % listLength),
                      dialed |-> fin'.currentIndex % listLength] >> ]_vars

C15_Witness ==
    /\ variant = "optlock"
    /\ LostUpdate
    /\ listLength = MaxN
    /\ fin.etag # doc.etag
    /\ Len(fin.callbacks) = 1
    /\ FirstOutcome = "Dial"
    /\ Len(writes) >= 1
    /\ doc.currentIndex = writes[Len(writes)].value


(* claims about one activation and the faults of the store *)
\* the activation in fin sent a cursor update that failed
UpdateFailed == Finished /\ fin.updates = 1 /\ ~fin.committed

\* C16 as claimed: when the cursor update of a Dial activation fails with a
\* store error (not a version conflict: one activation runs), the leg is
\* answered Dial of the selected entry and nothing else: no apology, no error.
C16_UpdateFailureStillDials ==
    UpdateFailed =>
        /\ Len(fin.callbacks) >= 1
        /\ \A i \in 1..Len(fin.callbacks) :
               /\ ~fin.callbacks[i].err
               /\ fin.callbacks[i].twiml =
                      dialNumber(SafeIdx(variant, fin.status, fin.currentIndex))


\* the get-or-create of the cursor failed: a store operation was made and no
\* cursor was obtained
ReadFailed == Finished /\ fin.storeOps >= 1 /\ ~CursorRead

\* C17 as claimed: in each handler, when the fetch fails with a status other
\* than 404 or the create after a 404 fails, the activation answers the
\* apology and hangup as a normal response, never an error handed to the
\* transport, and makes no cursor update.
C17_ReadFailureApologizes ==
    ReadFailed =>
        /\ fin.callbacks = << [err |-> FALSE, twiml |-> <<SayError, Hangup>>,
                              dialed |-> -1] >>
        /\ fin.updates = 0
        /\ writes = << >>


\* C18: in the admission handler an activation that answers Reject was
\* stopped by the gate (block list or spam annotation) before any store
\* access: the step that rejects makes no fetch, create or update, leaves no
\* store operation pending and leaves the document as it was, absent if it
\* was absent.
C18_GateBeforeStore ==
    [][ ( /\ variant = "admission"
          /\ fin' # fin
          /\ \E i \in 1..Len(fin'.callbacks) :
                 Outcome(fin'.callbacks[i]) = "Reject" )
        => /\ fin'.storeOps = 0
           /\ fin'.updates = 0
           /\ ~(fin'.currentIndex >= 0)
           /\ acts' = acts
           /\ doc' = doc
           /\ writes' = writes
           /\ \/ \E i \in 1..Len(blacklistedNumbers) :
                     blacklistedNumbers[i] = fin'.from
              \/ (fin'.addOns.present /\ fin'.addOns.score >= 75) ]_vars

C18_Witness ==
    /\ Finished
    /\ variant = "admission"
    /\ ~OnBlockList
    /\ SpamAnnotated
    /\ InitialLeg
    /\ FirstOutcome = "Reject"
    /\ fin.storeOps = 0
    /\ ~doc.exists


\* C19: in the admission handler, on the initial leg of a caller who is not
\* on the Block List, the answer is Reject exactly when the AddOns payload is
\* successful, the TrueSpam result is successful with a result present, the
\* match flag is 1 and the score is at least 75; otherwise the activation goes
\* on to the cursor read and is routed (Dial or Unavailable when the store
\* answers).
C19_SpamRejectExactlyAtThreshold ==
    (Finished /\ variant = "admission" /\ InitialLeg /\ ~OnBlockList) =>
        /\ (FirstOutcome = "Reject") <=> SpamAnnotated
        /\ ~SpamAnnotated => fin.storeOps >= 1
        /\ (~SpamAnnotated /\ CursorRead /\ (fin.updates = 0 \/ fin.committed)) =>
               FirstOutcome = (IF listLength = 0 THEN "Unavailable" ELSE "Dial")

C19_Witness ==
    /\ Finished
    /\ variant = "admission"
    /\ InitialLeg
    /\ ~OnBlockList
    /\ fin.addOns = SpamAddOns(75)
    /\ FirstOutcome = "Reject"
    /\ listLength >= 1

\* the score just under the threshold is admitted and dialed
C19_WitnessAdmitted ==
    /\ Finished
    /\ variant = "admission"
    /\ InitialLeg
    /\ ~OnBlockList
    /\ fin.addOns = SpamAddOns(74)
    /\ FirstOutcome = "Dial"


\* C20 as claimed: an initial leg that reads a stale cursor strictly greater
\* than listLength (N >= 1) dials the entry at index 0, not the entry at
\* index cursor mod N, and the cursor it persists is 1.
C20_StaleCursorAboveLengthResets ==
    (Finished /\ InitialLeg /\ Admitted /\ CursorRead /\ listLength >= 1
        /\ fin.currentIndex > listLength /\ fin.committed) =>
        /\ FirstOutcome = "Dial"
        /\ fin.callbacks[1].dialed = 0
        /\ fin.callbacks[1].twiml = dialNumber(0)
        /\ doc.currentIndex = 1


(* claims about the value of the cursor *)
\* C21 as claimed: in each handler a Dial activation writes the index of the
\* entry it dialed (cursor mod listLength) plus one, so that from a fresh
\* document the stored cursor never exceeds the list length.
C21_CursorWrittenIsDialedPlusOne ==
    listLength >= 1 =>
        /\ \A i \in 1..Len(writes) :
               writes[i].value = (writes[i].read % listLength) + 1
        /\ (Finished /\ fin.committed) =>
               writes[Len(writes)].value = fin.callbacks[1].dialed + 1
        /\ doc.currentIndex <= listLength


(* claims about the forwarding list and the assets *)
\* no verb of the activation's TwiML is a Dial
NoDial == \A i \in 1..Len(fin.twiml) : fin.twiml[i].verb # "Dial"

\* C22: with an empty forwarding list, every activation the gate admits,
\* whose legStatus is not completed/answered, answers Unavailable (the
\* apology, then hangup) whatever cursor it reads, on the initial leg and on
\* forwarded legs alike, with no Dial and no cursor update.
C22_EmptyListUnavailable ==
    (Finished /\ listLength = 0 /\ Admitted /\ ~AnsweredLeg /\ CursorRead) =>
        /\ fin.callbacks = << [err |-> FALSE,
                              twiml |-> <<SayUnavailable, Hangup>>,
                              dialed |-> -1] >>
        /\ NoDial
        /\ fin.updates = 0
        /\ writes = << >>

C22_Witness ==
    /\ Finished
    /\ listLength = 0
    /\ Admitted
    /\ fin.status = "no-answer"
    /\ fin.currentIndex = MaxCursor
    /\ FirstOutcome = "Unavailable"
    /\ doc.currentIndex = MaxCursor


(* ---------------- one activation, any state of the assets --------------- *)
\* entries whose number fails the E.164 test
BadEntries ==
    << [number |-> NumBad, name |-> "Mallory"],
       [number |-> NumAnon, name |-> ""] >>

\* the forwarding-list assets a deployment may hold: none, one that does not
\* parse, an empty list, lists of invalid entries only, lists of valid
\* entries, and lists that mix the two
AnyPhoneAssets ==
    { MissingAsset, BadJsonAsset,
      [ok |-> TRUE, list |-> << >>],
      [ok |-> TRUE, list |-> <<BadEntries[1]>>],
      [ok |-> TRUE, list |-> BadEntries],
      [ok |-> TRUE, list |-> ValidList(MaxN)],
      [ok |-> TRUE, list |-> <<BadEntries[1], EntryPool[2], EntryPool[1]>>],
      [ok |-> TRUE, list |-> <<EntryPool[2], BadEntries[2], EntryPool[3]>>] }

AnyBlacklistAssets == BlacklistAssets \cup {BadJsonAsset}

AssetSignal ==
    /\ calls[1].leg = 0
    /\ \E from \in GateCallers, status \in {NoStatus, "no-answer", "completed"} :
           Invoke(1, AnySignal(from, status, NoAddOns), FetchOutcome)
    /\ UNCHANGED <<config, doc, writes, faults, dups>>

InitAssets ==
    /\ variant \in Variants
    /\ phoneAsset \in AnyPhoneAssets
    /\ blacklistAsset \in IF variant = "admission" THEN AnyBlacklistAssets
                          ELSE {MissingAsset}
    /\ doc \in DocStates
    /\ acts = [a \in Acts |-> FreeAct]
    /\ calls = [c \in Calls |-> NewCall]
    /\ faults = 0
    /\ dups = 0
    /\ budget = 1
    /\ fin = FreeAct
    /\ writes = << >>

NextAssets ==
    \/ AssetSignal
    \/ \E a \in Acts : Create(a)
    \/ \E a \in Acts : Update(a)

SpecAssets == InitAssets /\ [][NextAssets]_vars


\* the forwarding list has entries and each of them fails address validation
AllEntriesInvalid ==
    /\ phoneAsset.ok
    /\ Len(phoneAsset.list) >= 1
    /\ \A i \in 1..Len(phoneAsset.list) : ~E164(phoneAsset.list[i].number)

\* C23 as claimed: in each handler a forwarding list whose entries all fail
\* address validation behaves as an empty list: a completed/answered leg is
\* answered Connected, every other admitted leg Unavailable, whatever the
\* cursor, and no entry is dialed.
C23_AllInvalidListIsEmpty ==
    (Finished /\ AllEntriesInvalid /\ Admitted /\ CursorRead) =>
        /\ fin.callbacks =
               << [err |-> FALSE,
                   twiml |-> IF AnsweredLeg THEN <<SayConnected>>
                             ELSE <<SayUnavailable, Hangup>>,
                   dialed |-> -1] >>
        /\ NoDial
        /\ fin.updates = 0


\* C24: configuration errors are not fatal.  When the forwarding-list asset
\* is missing or does not parse, every admitted leg that is not
\* completed/answered is answered Unavailable; when the block-list asset is
\* missing or does not parse, no caller is answered Reject for being
\* block-listed (a caller a readable block list names included); and in
\* neither case does the activation answer an error or the apology, or give
\* no answer: it calls back once, without error.
C24_ConfigurationErrorsNonFatal ==
    Finished =>
        /\ (~phoneAsset.ok /\ Admitted /\ ~AnsweredLeg) =>
               /\ FirstOutcome = "Unavailable"
               /\ fin.updates = 0
        /\ (variant = "admission" /\ ~blacklistAsset.ok /\ ~SpamAnnotated) =>
               FirstOutcome # "Reject"
        /\ (~phoneAsset.ok \/ (variant = "admission" /\ ~blacklistAsset.ok)) =>
               /\ Len(fin.callbacks) = 1
               /\ ~fin.callbacks[1].err
               /\ FirstOutcome \notin {"Apology", "Error", "Other"}

C24_Witness ==
    /\ Finished
    /\ variant = "admission"
    /\ phoneAsset = BadJsonAsset
    /\ blacklistAsset = BadJsonAsset
    /\ fin.from = NumC
    /\ InitialLeg
    /\ FirstOutcome = "Unavailable"

\* the basic handler with no asset at all
C24_WitnessMissing ==
    /\ Finished
    /\ variant = "basic"
    /\ phoneAsset = MissingAsset
    /\ fin.status = "no-answer"
    /\ FirstOutcome = "Unavailable"


\* C25 as claimed: within one call no entry is dialed twice: each Dial
\* decision of a call targets an index strictly greater than that of the
\* call's previous Dial, the calls' activations interleaved in any way (each
\* signal delivered once).
C25_NoEntryDialedTwice ==
    dups = MaxDup =>
        \A c \in Calls : \A k \in 2..Len(calls[c].decisions) :
            ( /\ calls[c].decisions[k].kind = "Dial"
              /\ calls[c].decisions[k - 1].kind = "Dial" )
            => calls[c].decisions[k].idx > calls[c].decisions[k - 1].idx


(* ------------- calls that nobody answers, run to their end -------------- *)
\* legs a call is followed for: pending updates of earlier legs (one per
\* activation slot) can each hold the cursor back for one more Dial
LiveLegs == MaxN * MaxActs + MaxCalls

CanContinue(c) ==
    \/ calls[c].leg = 0 /\ \A b \in Calls : b < c => calls[b].leg > 0
    \/ /\ calls[c].decided
       /\ calls[c].decisions[Len(calls[c].decisions)].kind = "Dial"
       /\ calls[c].leg < LiveLegs

\* the inbound call, then the action callback of each <Dial>, which nobody
\* answered
UnansweredLeg(c) ==
    /\ CanContinue(c)
    /\ Invoke(c, NextSignal(c, NumA,
                            IF calls[c].leg = 0 THEN NoStatus ELSE "no-answer",
                            NoAddOns),
              FetchOutcome)
    /\ UNCHANGED <<config, doc, writes, faults, dups>>

InitLive ==
    /\ Configs
    /\ blacklistAsset = MissingAsset
    /\ listLength >= 1
    /\ doc = NoDoc
    /\ acts = [a \in Acts |-> FreeAct]
    /\ calls = [c \in Calls |-> NewCall]
    /\ faults = 0
    /\ dups = 0
    /\ budget = MaxCalls * LiveLegs
    /\ fin = FreeAct
    /\ writes = << >>

NextLive ==
    \/ \E c \in Calls : UnansweredLeg(c)
    \/ \E a \in Acts : Create(a)
    \/ \E a \in Acts : Update(a)

\* The runtime runs every started activation to its end, the store answers
\* every operation and the carrier signals every leg: some step is taken as
\* long as one is possible.
SpecLive == InitLive /\ [][NextLive]_vars /\ WF_vars(NextLive)

\* call c was answered Voicemail
ReachedVoicemail(c) ==
    \E k \in 1..Len(calls[c].decisions) : calls[c].decisions[k].kind = "Voicemail"

\* C26 as claimed: with a non-empty list and every dial unanswered, every
\* call is eventually answered Voicemail.
C26_EveryCallReachesVoicemail ==
    <>(\A c \in Calls : ReachedVoicemail(c))


(* claims about the entry a Dial selects *)
\* the activation in fin answered a Dial
Dialed == Finished /\ \E i \in 1..Len(fin.callbacks) : Outcome(fin.callbacks[i]) = "Dial"

\* C27 as claimed: for a list of N >= 1 entries and every stored cursor,
\* values above N included, a Dial selects the index cursor mod N.
C27_DialedIndexIsCursorModN ==
    (Dialed /\ listLength >= 1) =>
        /\ fin.dialed \in 0..(listLength - 1)
        /\ fin.dialed = fin.currentIndex % listLength

\* C27 as amended: a Dial selects an existing entry, of index in 0..N-1: the
\* index is cursor mod N, except that the basic handler selects index 0 on
\* an initial leg that reads a cursor >= N; the Dial verb targets the number
\* of that entry.
C27_DialedIndexWithinList ==
    (Dialed /\ listLength >= 1) =>
        /\ fin.dialed \in 0..(listLength - 1)
        /\ fin.dialed =
               IF variant = "basic" /\ InitialLeg /\ fin.currentIndex >= listLength
               THEN 0
               ELSE fin.currentIndex % listLength
        /\ fin.twiml[2] = DialVerb(whitelistedNumbers.numbers[fin.dialed + 1])

C27_Witness ==
    /\ Dialed
    /\ variant = "admission"
    /\ listLength = MaxN
    /\ fin.currentIndex = MaxCursor
    /\ fin.dialed = MaxCursor % MaxN
    /\ fin.committed

\* the basic handler on a stale cursor above N
C27_WitnessBasic ==
    /\ Dialed
    /\ variant = "basic"
    /\ listLength = MaxN
    /\ fin.currentIndex = MaxCursor
    /\ fin.dialed = 0


\* the entries of the asset that pass address validation, in their order
ValidEntries == IF phoneAsset.ok THEN SelectValid(phoneAsset.list) ELSE << >>

\* C28 as claimed: a Dial at index i announces the display name of the i-th
\* valid entry (counting from 0) when it has one and "recipient i+1"
\* otherwise, and dials the number of that same entry.
C28_AnnouncementMatchesEntry ==
    Dialed =>
        /\ fin.dialed + 1 \in 1..Len(ValidEntries)
        /\ fin.twiml[1] =
               SayTrying(IF ValidEntries[fin.dialed + 1].name # ""
                         THEN ValidEntries[fin.dialed + 1].name
                         ELSE PositionLabels[fin.dialed + 1])
        /\ fin.twiml[2] = DialVerb(ValidEntries[fin.dialed + 1].number)

=============================================================================
